---------------------------- MODULE Spec2Model ----------------------------
(***************************************************************************)
(* A model of ant_nest's Ant (src/ant_nest/ant.py): the pipeline runner,   *)
(* the retrying request protocol, the per-host session pool, the reporter  *)
(* and the main() lifecycle.                                               *)
(*                                                                         *)
(* The program runs on one asyncio event loop: code between two awaits is  *)
(* atomic.  Every action below is one such block of one coroutine: from    *)
(* the point where it is resumed to the next point where it suspends.      *)
(***************************************************************************)
EXTENDS Integers, Sequences, FiniteSets, TLC

VARIABLES
    request_pipelines,   \* Ant.request_pipelines: the stages, in declaration order
    response_pipelines,  \* Ant.response_pipelines
    item_pipelines,      \* Ant.item_pipelines
    request_retries,     \* Ant.request_retries
    sessions,            \* Ant.sessions: host -> ClientSession, in insertion order
    _reports,            \* Ant._reports: kind -> <<baseline, total>>
    _drop_reports,       \* Ant._drop_reports: kind -> <<baseline, total>>
    _last_time,          \* Ant._last_time
    logged,              \* what report() has logged: per kind, the rate of the
                         \* latest flush and the sum of the rates of all flushes
    now,                 \* time.time()
    tasks,               \* the request()/collect() calls scheduled on the loop
    main                 \* the main() coroutine: its position and what it has done

vars == <<request_pipelines, response_pipelines, item_pipelines, request_retries,
          sessions, _reports, _drop_reports, _last_time, logged, now, tasks, main>>

config == <<request_pipelines, response_pipelines, item_pipelines, request_retries>>
reporter == <<_reports, _drop_reports, _last_time, logged>>

----------------------------------------------------------------------------
(* Bounds of the model *)

MaxStages == 2      \* longest pipeline chain
MaxRetries == 2     \* largest request_retries
MaxCollects == 2    \* concurrent collect() calls
MaxTime == 61       \* the clock stops here
MaxHookStages == 2  \* longest request pipeline list in the study of the hooks
MaxReports == 4     \* report() calls in the study of the reporter
MaxReportTime == 122  \* the clock stops here in the study of the reporter

(* Program constants *)

_report_slot == 60
RetryStatus == 500

----------------------------------------------------------------------------
(* Values *)

Hosts == {"a.example", "b.example"}
\* The cookies argument of request(): None or a dict.
None == [is_none |-> TRUE, dict |-> <<>>]
Some(d) == [is_none |-> FALSE, dict |-> d]
CookieArgs == {None} \cup {Some(d) : d \in {<<>>, [sid |-> "v1"], [sid |-> "v2", lang |-> "v2"]}}

\* thing.__class__.__name__
Kinds == {"Request", "Response", "Item", "NoneType"}

\* What one call of pipeline.process(thing) gives back.
StageOutcomes == {"thing", "none", "error", "raise", "coroutine"}
\* What awaiting a coroutine given back by pipeline.process(thing) gives.
AwaitOutcomes == {"thing", "none", "error", "raise", "timeout"}

\* The outcome of one attempt: a response with a status, or an error raised.
Resp(s) == [err |-> "", status |-> s]
Err(e) == [err |-> e, status |-> 0]
Statuses == {200, 499, 500}
\* queen.timeout_wrapper: an attempt that exceeds request_timeout is cancelled
\* and fails with a timeout error.
TimeoutOutcome == Err("TimeoutError")
\* How one attempt that was sent ends: session.request answers or fails, or
\* the attempt times out.
TransportOutcomes == {Resp(s) : s \in Statuses} \cup {Err("ClientError"), TimeoutOutcome}

Chains == {"request", "response", "item"}
Pipes(n) == [i \in 1..n |-> i]

----------------------------------------------------------------------------
(* Reporter: Ant.report *)

Get(d, k) == IF k \in DOMAIN d THEN d[k] ELSE <<0, 0>>
Total(d, k) == Get(d, k)[2]
Baseline(d, k) == Get(d, k)[1]

\* Rebaseline that resets the counters: counts[0] = counts[1] = 0.
RebaselineReset(d) == [k \in DOMAIN d |-> <<0, 0>>]

\* counts[0] = counts[1] for every entry of the dict
Rebaseline(d) == [k \in DOMAIN d |-> <<d[k][2], d[k][2]>>]

\* Increment with "counts[1] = counts[0] + 1": the baseline read for the total.
IncrementFromBaseline(d, k) ==
    [x \in DOMAIN d \cup {k} |-> IF x = k THEN <<Get(d, k)[1], Get(d, k)[1] + 1>> ELSE d[x]]

\* counts = reports[report_type]; counts[1] += 1   (a defaultdict: [0, 0] when absent)
Increment(d, k) ==
    [x \in DOMAIN d \cup {k} |-> IF x = k THEN <<Get(d, k)[1], Get(d, k)[2] + 1>> ELSE d[x]]

\* FlushDue with ">=" for ">": a flush as soon as the slot has elapsed.
FlushDueAtSlot == now - _last_time >= _report_slot

FlushDue == now - _last_time > _report_slot

\* Nothing logged yet.
NoLog == [get |-> <<>>, drop |-> <<>>]

\* The lines "... in total with {count}/{slot}s rate" of one flush, for the
\* entries of the dict d: count = counts[1] - counts[0]
LogRates(f, d) ==
    [k \in DOMAIN d |->
        <<d[k][2] - d[k][1], (IF k \in DOMAIN f THEN f[k][2] ELSE 0) + d[k][2] - d[k][1]>>]

Flush(f) == [get |-> LogRates(f.get, _reports), drop |-> LogRates(f.drop, _drop_reports)]

\* report with the dropped flag ignored: everything counts as delivered.
reportAllDelivered(kind, dropped) ==
    LET r == IF FlushDue THEN Rebaseline(_reports) ELSE _reports
        d == IF FlushDue THEN Rebaseline(_drop_reports) ELSE _drop_reports
    IN  /\ _last_time' = IF FlushDue THEN now ELSE _last_time
        /\ logged' = IF FlushDue THEN Flush(logged) ELSE logged
        /\ _reports' = Increment(r, kind)
        /\ _drop_reports' = d

report(kind, dropped) ==
    LET r == IF FlushDue THEN Rebaseline(_reports) ELSE _reports
        d == IF FlushDue THEN Rebaseline(_drop_reports) ELSE _drop_reports
    IN  /\ _last_time' = IF FlushDue THEN now ELSE _last_time
        /\ logged' = IF FlushDue THEN Flush(logged) ELSE logged
        /\ _reports' = IF dropped THEN r ELSE Increment(r, kind)
        /\ _drop_reports' = IF dropped THEN Increment(d, kind) ELSE d

----------------------------------------------------------------------------
(* Pipeline runner: Ant._handle_thing_with_pipelines *)

\* The loop from stage i+1 on, up to the point where it suspends or leaves.
\* raw is the kind of raw_thing, thing the kind of the current thing, n the
\* length of the chain, os[k] what stage k gives back when it is called.
\* d: "completed" (return thing), "dropped" (an Exception instance came back),
\* "raised" (the stage itself raised), "await" (suspended on stage idx's coroutine).
RECURSIVE RunChain(_, _, _, _, _)
\* StageResult without the isinstance(thing, Exception) test: an error value is
\* handed to the next stage like any other result.
StageResultNoBreak(raw, thing, i, n, os, o) ==
    CASE o = "raise" -> [d |-> "raised", thing |-> thing, idx |-> i, err |-> "StageError"]
      [] o = "timeout" -> [d |-> "raised", thing |-> thing, idx |-> i, err |-> "TimeoutError"]
      [] o = "none" -> RunChain(raw, "NoneType", i, n, os)
      [] OTHER -> RunChain(raw, raw, i, n, os)

StageResult(raw, thing, i, n, os, o) ==
    CASE o = "error" -> [d |-> "dropped", thing |-> thing, idx |-> i, err |-> "ThingDropped"]
      [] o = "raise" -> [d |-> "raised", thing |-> thing, idx |-> i, err |-> "StageError"]
      [] o = "timeout" -> [d |-> "raised", thing |-> thing, idx |-> i, err |-> "TimeoutError"]
      [] o = "none" -> RunChain(raw, "NoneType", i, n, os)
      [] OTHER -> RunChain(raw, raw, i, n, os)

RunChain(raw, thing, i, n, os) ==
    IF i >= n
    THEN [d |-> "completed", thing |-> thing, idx |-> i, err |-> ""]
    ELSE IF os[i + 1] = "coroutine"
         THEN [d |-> "await", thing |-> thing, idx |-> i + 1, err |-> ""]
         ELSE StageResult(raw, thing, i + 1, n, os, os[i + 1])

ChainLen(c) ==
    CASE c = "request" -> Len(request_pipelines)
      [] c = "response" -> Len(response_pipelines)
      [] OTHER -> Len(item_pipelines)

\* The kind of the thing request()/collect() feeds into chain c.
RawKind(c) ==
    CASE c = "request" -> "Request"
      [] c = "response" -> "Response"
      [] OTHER -> "Item"

\* What the stages k+1..n of a chain may give back on one run of the loop.
StageChoices(k, n) == [(k + 1)..n -> StageOutcomes]

----------------------------------------------------------------------------
(* Session pool: Ant._request, lines 152-159 *)

HasSession(s, h) == \E i \in 1..Len(s) : s[i].host = h
SessionIndex(s, h) == CHOOSE i \in 1..Len(s) : s[i].host = h
\* The identity of the next ClientSession object: one no session of the pool has.
NextSid(s) ==
    IF s = <<>> THEN 1
    ELSE 1 + CHOOSE m \in {s[i].sid : i \in 1..Len(s)} : \A j \in 1..Len(s) : s[j].sid <= m

\* update_cookies that replaces the jar by the new cookies.
update_cookies_replace(jar, cookies) == cookies

\* session.cookie_jar.update_cookies(cookies): a name in cookies takes its value
update_cookies(jar, cookies) ==
    [n \in DOMAIN jar \cup DOMAIN cookies |-> IF n \in DOMAIN cookies THEN cookies[n] ELSE jar[n]]

\* aiohttp.ClientSession(cookies=cookies)
\* closed, failed: the close() calls on it that returned, and that raised
ClientSession(h, sid, cookies) ==
    [host |-> h, sid |-> sid, closed |-> 0, failed |-> 0,
     jar |-> IF cookies.is_none THEN <<>> ELSE update_cookies(<<>>, cookies.dict)]

\* Acquire without the "host not in self.sessions" test: a new session for
\* every attempt, put in the place of the host's old one.
AcquireFresh(s, h, cookies) ==
    IF ~HasSession(s, h)
    THEN Append(s, ClientSession(h, NextSid(s), cookies))
    ELSE [s EXCEPT ![SessionIndex(s, h)] = ClientSession(h, NextSid(s), cookies)]

\* if host not in self.sessions: ... else: ...
Acquire(s, h, cookies) ==
    IF ~HasSession(s, h)
    THEN Append(s, ClientSession(h, NextSid(s), cookies))
    ELSE IF cookies.is_none
         THEN s
         ELSE [s EXCEPT ![SessionIndex(s, h)].jar = update_cookies(@, cookies.dict)]

----------------------------------------------------------------------------
(* Retry policy: Ant.make_retry_decorator and the branch of Ant.request *)

\* Retryable with "status > 500" for "status >= 500".
RetryableAbove(o) == o.err # "" \/ o.status > RetryStatus

\* Retryable with retry_if_exception_type(ClientError): a timeout is not retried.
RetryableNoTimeout(o) == o.err \notin {"", "TimeoutError"} \/ o.status >= RetryStatus

\* retry=(retry_if_result(lambda res: res.status >= 500) | retry_if_exception_type())
Retryable(o) == o.err # "" \/ o.status >= RetryStatus

\* stop=stop_after_attempt(retries + 1)
StopAfter(retries, attempts) == attempts >= retries + 1

\* make_retry_decorator handing on the last outcome when the attempts are used up.
make_retry_decorator_reraise(retries, attempts, o) ==
    IF ~Retryable(o) THEN "return"
    ELSE IF StopAfter(retries, attempts)
         THEN (IF o.err # "" THEN "raise" ELSE "return")
         ELSE "sleep"

\* What the decorated function does after an attempt with outcome o: tenacity
\* returns the result, sleeps and calls again, or raises RetryError.
make_retry_decorator(retries, attempts, o) ==
    IF ~Retryable(o) THEN "return"
    ELSE IF StopAfter(retries, attempts) THEN "exhausted" ELSE "sleep"

\* Decision with a timeout that ends the whole call: it is never retried.
DecisionTimeoutFatal(attempts, o) ==
    IF o.err = "TimeoutError" THEN "raise"
    ELSE IF request_retries > 0
         THEN make_retry_decorator(request_retries, attempts, o)
         ELSE IF o.err # "" THEN "raise" ELSE "return"

\* request(): if retries > 0 the decorated function, else the bare one.
Decision(attempts, o) ==
    IF request_retries > 0
    THEN make_retry_decorator(request_retries, attempts, o)
    ELSE IF o.err # "" THEN "raise" ELSE "return"

----------------------------------------------------------------------------
(* The calls: Ant.request and Ant.collect *)

\* One call.  seen: what each stage of the current chain gave back so far;
\* invoked[c]: how many stages of chain c were called; attempts: attempts
\* started; sent: attempts that reached session.request; outs: the outcome of
\* every attempt that ended; sid: the session of the latest attempt.
NoTask ==
    [op |-> "none", pc |-> "idle", phase |-> "request", thing |-> "Request",
     seen |-> <<>>, invoked |-> [c \in Chains |-> 0], attempts |-> 0, sent |-> 0,
     outs |-> <<>>, sid |-> 0, host |-> "a.example", cookies |-> None, err |-> ""]

Finished(tk) == tk.pc \in {"done", "raised"}

Raise(t, tk, e) == tasks' = [tasks EXCEPT ![t] = [tk EXCEPT !.pc = "raised", !.err = e]]

\* An attempt that ended with the error e before it suspended.
SyncFail(t, tk, e) ==
    LET tk1 == [tk EXCEPT !.outs = Append(@, Err(e))]
        d == Decision(tk.attempts, Err(e))
    IN  CASE d = "sleep" -> tasks' = [tasks EXCEPT ![t] = [tk1 EXCEPT !.pc = "retry_wait"]]
          [] d = "exhausted" -> Raise(t, tk1, "RetryError")
          [] OTHER -> Raise(t, tk1, e)

\* One attempt, request_function(req), up to "async with session.request(...)":
\* _request reads req's slots, takes the host's session or makes it, merges cookies.
Attempt(t, tk) ==
    LET tk1 == [tk EXCEPT !.attempts = @ + 1]
    IN  IF tk.thing # "Request"
        THEN SyncFail(t, tk1, "AttributeError") /\ UNCHANGED sessions
        ELSE LET s1 == Acquire(sessions, tk.host, tk.cookies)
                 se == s1[SessionIndex(s1, tk.host)]
                 tk2 == [tk1 EXCEPT !.sid = se.sid, !.sent = @ + 1]
             IN  /\ sessions' = s1
                 /\ IF se.closed > 0
                    THEN SyncFail(t, tk2, "RuntimeError")
                    ELSE tasks' = [tasks EXCEPT ![t] = [tk2 EXCEPT !.pc = "inflight"]]

\* What follows a run r of the loop of chain c in the call t.  tk: the call's
\* record, with seen holding what the stages before this run gave back; os: what
\* the stages called in this run gave back.
Settle(t, tk, c, r, os) ==
    LET tk1 == [tk EXCEPT !.phase = c, !.thing = r.thing, !.invoked[c] = r.idx,
                          !.seen = @ \o [j \in 1..(r.idx - Len(@)) |-> os[Len(@) + j]]]
    IN  CASE r.d = "await" ->
               /\ tasks' = [tasks EXCEPT ![t] = [tk1 EXCEPT !.pc = "pipe_await"]]
               /\ UNCHANGED <<reporter, sessions>>
          [] r.d = "dropped" ->
               /\ report(RawKind(c), TRUE)
               /\ Raise(t, tk1, r.err)
               /\ UNCHANGED sessions
          [] r.d = "raised" ->
               /\ Raise(t, tk1, r.err)
               /\ UNCHANGED <<reporter, sessions>>
          [] OTHER ->
               CASE c = "request" ->
                      /\ report(r.thing, FALSE)
                      /\ Attempt(t, tk1)
                 [] c = "response" ->
                      /\ report(r.thing, FALSE)
                      /\ tasks' = [tasks EXCEPT ![t] = [tk1 EXCEPT !.pc = "done"]]
                      /\ UNCHANGED sessions
                 [] OTHER ->
                      /\ report("Item", FALSE)
                      /\ tasks' = [tasks EXCEPT ![t] = [tk1 EXCEPT !.pc = "done"]]
                      /\ UNCHANGED sessions

\* AfterAttempt without the retry policy: whatever the attempt gave goes into
\* the response pipelines at once.
AfterAttemptEarly(t, tk, o, os) ==
    Settle(t, [tk EXCEPT !.seen = <<>>], "response",
           RunChain("Response", "Response", 0, ChainLen("response"), os), os)

\* What follows an attempt that came back from the transport with outcome o.
AfterAttempt(t, tk, o, os) ==
    LET d == Decision(tk.attempts, o)
    IN  CASE d = "sleep" ->
               /\ tasks' = [tasks EXCEPT ![t] = [tk EXCEPT !.pc = "retry_wait"]]
               /\ UNCHANGED <<reporter, sessions>>
          [] d = "exhausted" ->
               /\ Raise(t, tk, "RetryError")
               /\ UNCHANGED <<reporter, sessions>>
          [] d = "raise" ->
               /\ Raise(t, tk, o.err)
               /\ UNCHANGED <<reporter, sessions>>
          [] OTHER ->
               Settle(t, [tk EXCEPT !.seen = <<>>], "response",
                      RunChain("Response", "Response", 0, ChainLen("response"), os), os)

\* queen.schedule(ant.request(...)) / queen.schedule(ant.collect(item)), by run()
\* or by a pipeline's close hook
Schedule(t, op, host, cookies) ==
    /\ main.pc \in {"run", "close", "close_await"}
    /\ tasks[t].pc = "idle"
    /\ \A u \in DOMAIN tasks : u < t => tasks[u].pc # "idle"
    /\ tasks' = [tasks EXCEPT ![t] = [NoTask EXCEPT !.op = op, !.pc = "start",
                    !.phase = IF op = "request" THEN "request" ELSE "item",
                    !.thing = IF op = "request" THEN "Request" ELSE "Item",
                    !.host = host, !.cookies = cookies]]
    /\ UNCHANGED <<config, sessions, reporter, now, main>>

\* request() from its first line to its first suspension
RequestStart(t) ==
    /\ tasks[t].pc = "start" /\ tasks[t].op = "request"
    /\ \E os \in StageChoices(0, ChainLen("request")) :
          Settle(t, tasks[t], "request",
                 RunChain("Request", "Request", 0, ChainLen("request"), os), os)
    /\ UNCHANGED <<config, now, main>>

\* collect() from its first line to its first suspension
CollectStart(t) ==
    /\ tasks[t].pc = "start" /\ tasks[t].op = "collect"
    /\ \E os \in StageChoices(0, ChainLen("item")) :
          Settle(t, tasks[t], "item",
                 RunChain("Item", "Item", 0, ChainLen("item"), os), os)
    /\ UNCHANGED <<config, now, main>>

\* "thing = await thing" comes back (or async_timeout cancels it): the stage
\* that was awaited gave o, and the loop goes on.
StageResume(t) ==
    /\ tasks[t].pc = "pipe_await"
    /\ LET tk == tasks[t]
           c == tk.phase
           k == tk.invoked[c]
       IN  \E o \in AwaitOutcomes, os \in StageChoices(k, ChainLen(c)) :
              Settle(t, [tk EXCEPT !.seen[k] = o], c,
                     StageResult(RawKind(c), tk.thing, k, ChainLen(c), os, o), os)
    /\ UNCHANGED <<config, now, main>>

\* The transport answers, fails, or timeout_wrapper cancels the attempt.
AttemptDone(t) ==
    /\ tasks[t].pc = "inflight"
    /\ \E o \in TransportOutcomes, os \in StageChoices(0, ChainLen("response")) :
          AfterAttempt(t, [tasks[t] EXCEPT !.outs = Append(@, o)], o, os)
    /\ UNCHANGED <<config, now, main>>

\* wait_fixed(delay) is over: the next attempt
RetryWake(t) ==
    /\ tasks[t].pc = "retry_wait"
    /\ Attempt(t, tasks[t])
    /\ UNCHANGED <<config, reporter, now, main>>

\* Time passes, up to the limit: by the report slot, or by more than it.
Advance(limit) ==
    /\ \E d \in {_report_slot, _report_slot + 1} : now + d <= limit /\ now' = now + d
    /\ UNCHANGED <<config, sessions, reporter, tasks, main>>

\* Time passes.
Tick == Advance(MaxTime)

----------------------------------------------------------------------------
(* The lifecycle: Ant.main, Ant.open, Ant.close *)

\* itertools.chain(self.item_pipelines, self.response_pipelines, self.request_pipelines)
HookOrder ==
    [i \in 1..Len(item_pipelines) |-> <<"item", item_pipelines[i]>>]
    \o [i \in 1..Len(response_pipelines) |-> <<"response", response_pipelines[i]>>]
    \o [i \in 1..Len(request_pipelines) |-> <<"request", request_pipelines[i]>>]

\* What pipeline.on_spider_open() / on_spider_close() does when called, and when
\* the coroutine it gave back is awaited.
HookOutcomes == {"ok", "raise", "coroutine"}
HookAwaitOutcomes == {"ok", "raise"}
\* What "await session.close()" does.
CloseOutcomes == {"ok", "raise"}

\* main() before its first line.  steps: the steps of main() entered so far;
\* hook: the hooks called in the current open()/close(); opened, closed: the
\* hooks called, in order; open_failed: the positions in open()'s loop whose
\* hook raised and was logged; close_failed: the same for close(), with the
\* number of the close() call; closes: the close() calls begun; visited: the
\* sessions the loop of close() has taken from the dict; size: the dict's size
\* when that loop began.
MainNew ==
    [pc |-> "new", steps |-> <<>>, run_raised |-> FALSE, hook |-> 0,
     opened |-> <<>>, closed |-> <<>>, open_failed |-> {}, close_failed |-> {},
     closes |-> 0, visited |-> 0, size |-> 0, err |-> ""]

\* main() inside "await self.run()", every open hook called.
MainRunning ==
    [MainNew EXCEPT !.pc = "run", !.steps = <<"open", "run">>,
                    !.hook = Len(HookOrder), !.opened = HookOrder]

AllScheduledDone == \A t \in DOMAIN tasks : tasks[t].pc \in {"idle", "done", "raised"}

\* main(): await self.open()
MainStart ==
    /\ main.pc = "new"
    /\ main' = [main EXCEPT !.pc = "open", !.steps = Append(@, "open"), !.hook = 0]
    /\ UNCHANGED <<config, sessions, reporter, now, tasks>>

\* The try around a hook without "except Exception": what the hook raises
\* leaves open()/close() and main().
AfterHookUncaught(loop, o) ==
    CASE o = "coroutine" -> (IF loop = "open" THEN "open_await" ELSE "close_await")
      [] o = "raise" -> "raised"
      [] OTHER -> loop

\* Where the loop of open()/close() is after a hook came back with o: suspended
\* on the hook's coroutine, or at the next pipeline; an exception is caught and
\* logged.
AfterHook(loop, o) ==
    CASE o = "coroutine" -> (IF loop = "open" THEN "open_await" ELSE "close_await")
      [] OTHER -> loop

\* open(): the next pipeline's on_spider_open(); an exception is logged
OpenHook ==
    /\ main.pc = "open" /\ main.hook < Len(HookOrder)
    /\ \E o \in HookOutcomes :
          main' = [main EXCEPT !.hook = @ + 1,
                               !.opened = Append(@, HookOrder[main.hook + 1]),
                               !.open_failed = IF o = "raise" THEN @ \cup {main.hook + 1} ELSE @,
                               !.pc = AfterHook("open", o)]
    /\ UNCHANGED <<config, sessions, reporter, now, tasks>>

\* open(): "await obj" comes back or raises; an exception is logged
OpenHookResume ==
    /\ main.pc = "open_await"
    /\ \E o \in HookAwaitOutcomes :
          main' = [main EXCEPT !.pc = AfterHook("open", o),
                               !.open_failed = IF o = "raise" THEN @ \cup {main.hook} ELSE @]
    /\ UNCHANGED <<config, sessions, reporter, now, tasks>>

\* open() returns; main(): await self.run()
OpenDone ==
    /\ main.pc = "open" /\ main.hook = Len(HookOrder)
    /\ main' = [main EXCEPT !.pc = "run", !.steps = Append(@, "run")]
    /\ UNCHANGED <<config, sessions, reporter, now, tasks>>

\* The try around run() without "except Exception": the exception leaves main().
AfterRunUncaught(raised) == IF raised THEN "raised" ELSE "wait1"

\* Where main() goes when run() has returned or raised: the exception is
\* caught and logged.
AfterRun(raised) == "wait1"

\* run() returns or raises
RunEnds ==
    /\ main.pc = "run"
    /\ \E raised \in BOOLEAN :
          LET next == AfterRun(raised)
          IN  main' = [main EXCEPT !.pc = next, !.run_raised = raised,
                          !.steps = IF next = "wait1" THEN Append(@, "wait1") ELSE @,
                          !.err = IF next = "raised" THEN "RunError" ELSE @]
    /\ UNCHANGED <<config, sessions, reporter, now, tasks>>

\* The first queen.wait_scheduled_coroutines() returns; main(): await self.close()
Wait1Done ==
    /\ main.pc = "wait1"
    /\ AllScheduledDone
    /\ main' = [main EXCEPT !.pc = "close", !.steps = Append(@, "close"), !.hook = 0,
                             !.closes = 1]
    /\ UNCHANGED <<config, sessions, reporter, now, tasks>>

\* close(): the next pipeline's on_spider_close(); an exception is logged
CloseHook ==
    /\ main.pc = "close" /\ main.hook < Len(HookOrder)
    /\ \E o \in HookOutcomes :
          main' = [main EXCEPT !.hook = @ + 1,
                               !.closed = Append(@, HookOrder[main.hook + 1]),
                               !.close_failed = IF o = "raise"
                                                THEN @ \cup {<<main.closes, main.hook + 1>>}
                                                ELSE @,
                               !.pc = AfterHook("close", o)]
    /\ UNCHANGED <<config, sessions, reporter, now, tasks>>

\* close(): "await obj" comes back or raises; an exception is logged
CloseHookResume ==
    /\ main.pc = "close_await"
    /\ \E o \in HookAwaitOutcomes :
          main' = [main EXCEPT !.pc = AfterHook("close", o),
                               !.close_failed = IF o = "raise"
                                                THEN @ \cup {<<main.closes, main.hook>>}
                                                ELSE @]
    /\ UNCHANGED <<config, sessions, reporter, now, tasks>>

\* close(): the hooks are through; "for session in self.sessions.values()" begins
CloseHooksDone ==
    /\ main.pc = "close" /\ main.hook = Len(HookOrder)
    /\ main' = [main EXCEPT !.pc = "close_sessions", !.visited = 0, !.size = Len(sessions)]
    /\ UNCHANGED <<config, sessions, reporter, now, tasks>>

\* close(): the loop takes the next session from the dict, which has changed
\* size since the loop began: RuntimeError, which leaves close() and main()
CloseSessionsResized ==
    /\ main.pc = "close_sessions"
    /\ Len(sessions) # main.size
    /\ main' = [main EXCEPT !.pc = "raised", !.err = "RuntimeError"]
    /\ UNCHANGED <<config, sessions, reporter, now, tasks>>

\* session.close() that may fail on a session that is closed already.
SessionCloseOutcomesAny(se) == CloseOutcomes

\* What "await session.close()" can do on the session se: aiohttp's close()
\* returns at once, doing nothing, when the session is closed already.
SessionCloseOutcomes(se) == IF se.closed > 0 THEN {"ok"} ELSE CloseOutcomes

\* close(): await session.close() for the next session; what it raises leaves
\* close() and main()
CloseSession ==
    /\ main.pc = "close_sessions"
    /\ Len(sessions) = main.size
    /\ main.visited < main.size
    /\ \E o \in SessionCloseOutcomes(sessions[main.visited + 1]) :
          IF o = "ok"
          THEN /\ sessions' = [sessions EXCEPT ![main.visited + 1].closed =
                                                    IF @ > 0 THEN @ ELSE @ + 1]
               /\ main' = [main EXCEPT !.visited = @ + 1]
          ELSE /\ sessions' = [sessions EXCEPT ![main.visited + 1].failed = @ + 1]
               /\ main' = [main EXCEPT !.visited = @ + 1, !.pc = "raised", !.err = "CloseError"]
    /\ UNCHANGED <<config, reporter, now, tasks>>

\* close() returns: to main(), which goes on to the second
\* queen.wait_scheduled_coroutines(), or to the caller of a later close()
CloseDone ==
    /\ main.pc = "close_sessions"
    /\ Len(sessions) = main.size
    /\ main.visited = main.size
    /\ main' = IF main.closes = 1
               THEN [main EXCEPT !.pc = "wait2", !.steps = Append(@, "wait2")]
               ELSE [main EXCEPT !.pc = "closed_again"]
    /\ UNCHANGED <<config, sessions, reporter, now, tasks>>

\* The second wait returns; main(): the total report
Wait2Done ==
    /\ main.pc = "wait2"
    /\ AllScheduledDone
    /\ main' = [main EXCEPT !.pc = "summary", !.steps = Append(@, "summary")]
    /\ UNCHANGED <<config, sessions, reporter, now, tasks>>

\* main() logs the totals and returns
Summary ==
    /\ main.pc = "summary"
    /\ main' = [main EXCEPT !.pc = "done"]
    /\ UNCHANGED <<config, sessions, reporter, now, tasks>>

\* close() is called once more when main() is over
CloseAgain ==
    /\ main.pc = "done" /\ main.closes = 1
    /\ main' = [main EXCEPT !.pc = "close", !.hook = 0, !.closes = 2]
    /\ UNCHANGED <<config, sessions, reporter, now, tasks>>

----------------------------------------------------------------------------
(* The whole program: main() with the request() calls that run() and the close
   hooks schedule; one request pipeline, no retries *)

Init ==
    /\ request_pipelines = Pipes(1)
    /\ response_pipelines = <<>>
    /\ item_pipelines = <<>>
    /\ request_retries = 0
    /\ sessions = <<>>
    /\ _reports = <<>> /\ _drop_reports = <<>>
    /\ _last_time = 0 /\ now = 0
    /\ logged = NoLog
    /\ tasks = [t \in {1, 2} |-> NoTask]
    /\ main = MainNew

Next ==
    \/ MainStart
    \/ OpenHook
    \/ OpenHookResume
    \/ OpenDone
    \/ RunEnds
    \/ Wait1Done
    \/ CloseHook
    \/ CloseHookResume
    \/ CloseHooksDone
    \/ CloseSessionsResized
    \/ CloseSession
    \/ CloseDone
    \/ Wait2Done
    \/ Summary
    \/ CloseAgain
    \/ \E t \in DOMAIN tasks, h \in Hosts : Schedule(t, "request", h, None)
    \/ \E t \in DOMAIN tasks : RequestStart(t)
    \/ \E t \in DOMAIN tasks : StageResume(t)
    \/ \E t \in DOMAIN tasks : AttemptDone(t)

Spec == Init /\ [][Next]_vars

----------------------------------------------------------------------------
(* The hooks: main() over pipelines whose hooks return, raise or suspend; run()
   schedules nothing *)

InitHooks ==
    /\ request_pipelines \in {Pipes(n) : n \in 0..MaxHookStages}
    /\ response_pipelines \in {Pipes(n) : n \in 0..1}
    /\ item_pipelines \in {Pipes(n) : n \in 0..1}
    /\ request_retries = 0
    /\ sessions = <<>>
    /\ _reports = <<>> /\ _drop_reports = <<>>
    /\ _last_time = 0 /\ now = 0
    /\ logged = NoLog
    /\ tasks = <<>>
    /\ main = MainNew

NextHooks ==
    \/ MainStart
    \/ OpenHook
    \/ OpenHookResume
    \/ OpenDone
    \/ RunEnds
    \/ Wait1Done
    \/ CloseHook
    \/ CloseHookResume
    \/ CloseHooksDone
    \/ CloseDone
    \/ Wait2Done
    \/ Summary

SpecHooks == InitHooks /\ [][NextHooks]_vars

----------------------------------------------------------------------------
(* The request protocol alone: run() is executing and schedules one request() *)


InitRequest ==
    /\ request_pipelines \in {Pipes(n) : n \in 0..MaxStages}
    /\ response_pipelines \in {Pipes(n) : n \in 0..MaxStages}
    /\ item_pipelines = <<>>
    /\ request_retries \in 0..MaxRetries
    /\ sessions = <<>>
    /\ _reports = <<>> /\ _drop_reports = <<>>
    /\ _last_time = 0 /\ now = 0
    /\ logged = NoLog
    /\ tasks = [t \in {1} |-> NoTask]
    /\ main = MainRunning

NextRequest ==
    \/ \E t \in DOMAIN tasks, h \in Hosts : Schedule(t, "request", h, None)
    \/ \E t \in DOMAIN tasks : RequestStart(t)
    \/ \E t \in DOMAIN tasks : StageResume(t)
    \/ \E t \in DOMAIN tasks : AttemptDone(t)
    \/ \E t \in DOMAIN tasks : RetryWake(t)
    \/ Tick

SpecRequest == InitRequest /\ [][NextRequest]_vars

----------------------------------------------------------------------------
(* The session pool: run() is executing and schedules two concurrent request()
   calls, with cookies, to one host or two; no pipelines *)

InitSession ==
    /\ request_pipelines = <<>> /\ response_pipelines = <<>> /\ item_pipelines = <<>>
    /\ request_retries \in {0, 1}
    /\ sessions = <<>>
    /\ _reports = <<>> /\ _drop_reports = <<>>
    /\ _last_time = 0 /\ now = 0
    /\ logged = NoLog
    /\ tasks = [t \in {1, 2} |-> NoTask]
    /\ main = MainRunning

NextSession ==
    \/ \E t \in DOMAIN tasks, h \in Hosts, c \in CookieArgs : Schedule(t, "request", h, c)
    \/ \E t \in DOMAIN tasks : RequestStart(t)
    \/ \E t \in DOMAIN tasks : AttemptDone(t)
    \/ \E t \in DOMAIN tasks : RetryWake(t)

SpecSession == InitSession /\ [][NextSession]_vars

----------------------------------------------------------------------------
(* Item delivery: run() is executing and schedules concurrent collect() calls *)

InitCollect ==
    /\ request_pipelines = <<>> /\ response_pipelines = <<>>
    /\ item_pipelines \in {Pipes(n) : n \in 0..MaxStages}
    /\ request_retries = 0
    /\ sessions = <<>>
    /\ _reports = <<>> /\ _drop_reports = <<>>
    /\ _last_time = 0 /\ now = 0
    /\ logged = NoLog
    /\ tasks = [t \in 1..MaxCollects |-> NoTask]
    /\ main = MainRunning

NextCollect ==
    \/ \E t \in DOMAIN tasks, h \in {"a.example"} : Schedule(t, "collect", h, None)
    \/ \E t \in DOMAIN tasks : CollectStart(t)
    \/ \E t \in DOMAIN tasks : StageResume(t)
    \/ Tick

SpecCollect == InitCollect /\ [][NextCollect]_vars

----------------------------------------------------------------------------
(* The reporter alone: report() is called with things of every kind, delivered
   or dropped, while time passes *)

ReportKinds == {"Request", "Item"}

\* The report() calls made so far.
Calls ==
    LET Sum(d) == Total(d, "Request") + Total(d, "Response") + Total(d, "Item")
                     + Total(d, "NoneType")
    IN  Sum(_reports) + Sum(_drop_reports)

InitReport ==
    /\ request_pipelines = <<>> /\ response_pipelines = <<>> /\ item_pipelines = <<>>
    /\ request_retries = 0
    /\ sessions = <<>>
    /\ _reports = <<>> /\ _drop_reports = <<>>
    /\ _last_time = 0 /\ now = 0 /\ logged = NoLog
    /\ tasks = <<>>
    /\ main = MainRunning

\* self.report(thing, dropped)
Report(kind, dropped) ==
    /\ Calls < MaxReports
    /\ report(kind, dropped)
    /\ UNCHANGED <<config, sessions, now, tasks, main>>

TickReport == Advance(MaxReportTime)

NextReport ==
    \/ \E kind \in ReportKinds, dropped \in BOOLEAN : Report(kind, dropped)
    \/ TickReport

SpecReport == InitReport /\ [][NextReport]_vars

----------------------------------------------------------------------------
(* Properties of the request protocol (SpecRequest) *)

Min(a, b) == IF a <= b THEN a ELSE b
Last(q) == q[Len(q)]

\* The first stage of the current chain of call tk that gave back an error
\* value (0: none did).
ErrStage(tk) ==
    IF \E k \in 1..Len(tk.seen) : tk.seen[k] = "error"
    THEN CHOOSE k \in 1..Len(tk.seen) :
            tk.seen[k] = "error" /\ \A j \in 1..(k - 1) : tk.seen[j] # "error"
    ELSE 0

\* The calls whose thing of the given kind was declined by a stage's error value.
DroppedCalls(kind) ==
    {t \in DOMAIN tasks : ErrStage(tasks[t]) # 0 /\ RawKind(tasks[t].phase) = kind}

\* The calls that got a thing of the given kind through a whole chain.
DeliveredCalls(kind) ==
    {<<t, c>> \in (DOMAIN tasks) \X Chains :
        LET tk == tasks[t]
        IN  CASE c = "request" ->
                   /\ tk.op = "request" /\ tk.attempts > 0
                   /\ kind = (IF tk.phase = "response" THEN "Request" ELSE tk.thing)
              [] c = "response" ->
                   tk.op = "request" /\ tk.phase = "response" /\ tk.pc = "done" /\ kind = tk.thing
              [] OTHER ->
                   tk.op = "collect" /\ tk.pc = "done" /\ kind = "Item"}

\* C1: when stage k of a chain gives back an error value, no later stage of the
\* chain is called for that thing, the error is raised to the caller, and the
\* dropped counter of the original thing's kind counts the thing once while the
\* delivered counters count only the things that got through a whole chain.
C1_ErrorStopsChain ==
    /\ \A t \in DOMAIN tasks :
          LET tk == tasks[t]
              k == ErrStage(tk)
          IN  k # 0 => /\ Len(tk.seen) = k
                       /\ tk.invoked[tk.phase] = k
                       /\ tk.pc = "raised"
                       /\ tk.err = "ThingDropped"
    /\ \A kind \in Kinds :
          /\ Total(_drop_reports, kind) = Cardinality(DroppedCalls(kind))
          /\ Total(_reports, kind) = Cardinality(DeliveredCalls(kind))

\* A response chain of MaxStages stages whose first stage declined the response.
C1_Witness ==
    \E t \in DOMAIN tasks :
        /\ tasks[t].phase = "response" /\ ErrStage(tasks[t]) = 1
        /\ ChainLen("response") = MaxStages
        /\ tasks[t].pc = "raised"
        /\ Total(_drop_reports, "Response") = 1

\* The step in which a request-pipeline stage gives back an error value to call t.
RequestDropStep(t) ==
    /\ ErrStage(tasks[t]) = 0
    /\ ErrStage(tasks'[t]) # 0
    /\ tasks'[t].phase = "request"

\* C2: when a request-pipeline stage gives back an error for a Request,
\* request() raises it, no attempt is made and no session is touched, no
\* response stage runs, and the step adds 1 to dropped["Request"] and leaves
\* delivered["Request"] and both Response counters as they were.
C2_RequestDropSkipsSend ==
    /\ [](\A t \in DOMAIN tasks :
            (ErrStage(tasks[t]) # 0 /\ tasks[t].phase = "request") =>
                /\ tasks[t].pc = "raised" /\ tasks[t].err = "ThingDropped"
                /\ tasks[t].attempts = 0 /\ tasks[t].sent = 0 /\ tasks[t].outs = <<>>
                /\ tasks[t].sid = 0
                /\ tasks[t].invoked["response"] = 0)
    /\ [][\A t \in DOMAIN tasks :
            RequestDropStep(t) =>
                /\ Total(_drop_reports', "Request") = Total(_drop_reports, "Request") + 1
                /\ \A k \in Kinds : Total(_reports', k) = Total(_reports, k)
                /\ Total(_drop_reports', "Response") = Total(_drop_reports, "Response")
                /\ sessions' = sessions]_vars

\* Scenario A: stage A passes the request on, stage B gives back an error.
C2_Witness ==
    \E t \in DOMAIN tasks :
        /\ tasks[t].phase = "request" /\ tasks[t].seen = <<"thing", "error">>
        /\ tasks[t].pc = "raised"
        /\ Total(_drop_reports, "Request") = 1
        /\ Total(_reports, "Request") = 0

\* The retry trigger as the specification words it.
RetryTrigger(o) == o.err # "" \/ o.status >= 500

\* The index of the first attempt that neither raised nor returned status >= 500
\* (retries + 1 when there is none).
FirstFinal(outs) ==
    IF \E i \in 1..Len(outs) : ~RetryTrigger(outs[i])
    THEN CHOOSE i \in 1..Len(outs) :
            ~RetryTrigger(outs[i]) /\ \A j \in 1..(i - 1) : RetryTrigger(outs[j])
    ELSE request_retries + 1

\* The call has left the sending step.
SendOver(tk) == tk.phase = "response" \/ (tk.pc = "raised" /\ tk.attempts > 0)

\* C3: the attempts of one request() call number min(first attempt that neither
\* raises nor returns status >= 500, retries + 1): an attempt is followed by
\* another one exactly when it raised or returned status >= 500 and fewer than
\* retries + 1 attempts were made; every attempt for a Request is sent.
C3_AttemptCount ==
    \A t \in DOMAIN tasks :
        LET tk == tasks[t]
            n == tk.attempts
        IN  /\ n <= request_retries + 1
            /\ Len(tk.outs) = (IF tk.pc = "inflight" THEN n - 1 ELSE n)
            /\ \A i \in 1..Len(tk.outs) : i < n => RetryTrigger(tk.outs[i])
            /\ (n >= 1 /\ Len(tk.outs) = n) =>
                  (tk.pc = "retry_wait" <=>
                      (RetryTrigger(tk.outs[n]) /\ n < request_retries + 1))
            /\ SendOver(tk) => n = Min(FirstFinal(tk.outs), request_retries + 1)
            /\ ~SendOver(tk) => n <= Min(FirstFinal(tk.outs), request_retries + 1)
            /\ (tk.phase = "response" \/ tk.thing = "Request") => tk.sent = n

\* Two answers with status 500, then 200, with retries = 2: three attempts.
C3_Witness ==
    \E t \in DOMAIN tasks :
        /\ request_retries = 2
        /\ tasks[t].outs = <<Resp(500), Resp(500), Resp(200)>>
        /\ tasks[t].sent = 3
        /\ tasks[t].pc = "done"

\* All retries + 1 attempts of the call were made and the last one failed too.
Exhausted(tk) ==
    /\ SendOver(tk)
    /\ tk.attempts = request_retries + 1
    /\ RetryTrigger(Last(tk.outs))

C5_TimeoutRetried ==
    \A t \in DOMAIN tasks :
        LET tk == tasks[t]
        IN  /\ \A i \in 1..Len(tk.outs), e \in {"TimeoutError", "ClientError"} :
                  tk.outs[i] = Err(e) =>
                     IF i < request_retries + 1
                     THEN i < tk.attempts \/ tk.pc = "retry_wait"
                     ELSE /\ tk.pc = "raised"
                          /\ tk.err = (IF request_retries > 0 THEN "RetryError" ELSE e)
            /\ (request_retries = 1 /\ tk.outs = <<Err("TimeoutError"), Resp(200)>>) =>
                  /\ tk.sent = 2 /\ tk.attempts = 2
                  /\ tk.phase = "response"
                  /\ ChainLen("response") = 0 => (tk.pc = "done" /\ tk.err = "")

\* Scenario C: a timeout, then status 200, with retries = 1.
C5_Witness ==
    \E t \in DOMAIN tasks :
        /\ request_retries = 1
        /\ tasks[t].outs = <<Err("TimeoutError"), Resp(200)>>
        /\ tasks[t].sent = 2
        /\ tasks[t].pc = "done"

----------------------------------------------------------------------------
(* Properties of the session pool (SpecSession) *)

\* The step in which call t starts an attempt that looks up its host's session.
AcquireStep(t) == tasks'[t].sent = tasks[t].sent + 1

\* C6: the pool holds at most one session per host; every call uses the
\* pool's session of its host, so calls to one host share a session and calls
\* to different hosts never do; an entry appears only in an attempt to a host
\* that had none, and an entry is never replaced or removed.
C6_OneSessionPerHost ==
    /\ [](/\ \A i, j \in 1..Len(sessions) :
               (sessions[i].host = sessions[j].host \/ sessions[i].sid = sessions[j].sid)
                   => i = j
          /\ \A t \in DOMAIN tasks :
               tasks[t].sid # 0 =>
                   /\ HasSession(sessions, tasks[t].host)
                   /\ sessions[SessionIndex(sessions, tasks[t].host)].sid = tasks[t].sid
          /\ \A t, u \in DOMAIN tasks :
               (tasks[t].sid # 0 /\ tasks[u].sid # 0) =>
                   (tasks[t].host = tasks[u].host <=> tasks[t].sid = tasks[u].sid))
    /\ [][/\ Len(sessions') >= Len(sessions)
          /\ \A i \in 1..Len(sessions) :
                /\ sessions'[i].host = sessions[i].host
                /\ sessions'[i].sid = sessions[i].sid
          /\ Len(sessions') > Len(sessions) =>
                /\ Len(sessions') = Len(sessions) + 1
                /\ ~HasSession(sessions, sessions'[Len(sessions')].host)
                /\ \E t \in DOMAIN tasks :
                      AcquireStep(t) /\ tasks[t].host = sessions'[Len(sessions')].host]_vars

\* Two calls to one host, both in flight on the one session of that host.
C6_Witness ==
    /\ Len(sessions) = 1
    /\ \A t \in DOMAIN tasks :
          /\ tasks[t].pc = "inflight"
          /\ tasks[t].host = sessions[1].host
          /\ tasks[t].sid = sessions[1].sid

\* C7: an attempt with cookies to a host that has a session leaves that
\* session's jar as the old jar with the new cookies laid over it: old names
\* that are not in the new set keep their values, names in the new set take
\* the new values; an attempt to a host without a session seeds the new jar
\* with exactly its cookies; the step changes no other jar.
C7_CookieMerge ==
    [][\A t \in DOMAIN tasks :
          AcquireStep(t) =>
             LET h == tasks[t].host
                 c == tasks[t].cookies
                 i == SessionIndex(sessions', h)
                 new == sessions'[i].jar
             IN  /\ HasSession(sessions', h)
                 /\ \A j \in 1..Len(sessions) : j # i => sessions'[j].jar = sessions[j].jar
                 /\ IF HasSession(sessions, h)
                    THEN LET old == sessions[i].jar
                         IN  IF c.is_none
                             THEN new = old
                             ELSE /\ DOMAIN new = DOMAIN old \cup DOMAIN c.dict
                                  /\ \A n \in DOMAIN c.dict : new[n] = c.dict[n]
                                  /\ \A n \in DOMAIN old \ DOMAIN c.dict : new[n] = old[n]
                    ELSE new = (IF c.is_none THEN <<>> ELSE c.dict)]_vars

\* A jar seeded with {sid: v2, lang: v2} into which {sid: v1} was merged.
C7_Witness ==
    \E i \in 1..Len(sessions) : sessions[i].jar = [sid |-> "v1", lang |-> "v2"]

----------------------------------------------------------------------------
(* Properties of item delivery (SpecCollect) *)

\* A stage of the current chain declined the thing of call tk: it gave back an
\* error value, raised, or ran into the stage timeout.
Declined(tk) == \E k \in 1..Len(tk.seen) : tk.seen[k] \in {"error", "raise", "timeout"}

\* C8: under every interleaving of the collect() calls, delivered["Item"] is
\* the number of calls that have completed; a call no stage declines completes;
\* so N calls whose pipelines drop nothing leave delivered["Item"] = N and
\* dropped["Item"] as it was.
C8_NoLostIncrement ==
    /\ Total(_reports, "Item") = Cardinality({t \in DOMAIN tasks : tasks[t].pc = "done"})
    /\ \A t \in DOMAIN tasks :
          (Finished(tasks[t]) /\ ~Declined(tasks[t])) => tasks[t].pc = "done"
    /\ (\A t \in DOMAIN tasks : ~Declined(tasks[t])) => Total(_drop_reports, "Item") = 0
    /\ (\A t \in DOMAIN tasks : Finished(tasks[t]) /\ ~Declined(tasks[t])) =>
          Total(_reports, "Item") = Cardinality(DOMAIN tasks)

\* All the calls have completed, through a chain of MaxStages stages.
C8_Witness ==
    /\ ChainLen("item") = MaxStages
    /\ \A t \in DOMAIN tasks : tasks[t].pc = "done" /\ Len(tasks[t].seen) = MaxStages
    /\ Total(_reports, "Item") = MaxCollects
    /\ Total(_drop_reports, "Item") = 0

----------------------------------------------------------------------------
(* Properties of the lifecycle (Spec) *)

MainOrder == <<"open", "run", "wait1", "close", "wait2", "summary">>
IsPrefix(a, b) == Len(a) <= Len(b) /\ \A i \in 1..Len(a) : a[i] = b[i]

\* No scheduled call is still running.
Drained == \A t \in DOMAIN tasks : tasks[t].pc \in {"idle", "done", "raised"}

C10_CloseIsolatesSessions ==
    (\E i \in 1..Len(sessions) : sessions[i].failed > 0) =>
        /\ main.pc # "raised"
        /\ main.pc \in {"wait2", "summary", "done"} =>
              \A j \in 1..main.size : sessions[j].closed + sessions[j].failed >= 1

----------------------------------------------------------------------------
(* Properties of the hooks (SpecHooks) *)

\* The hooks called by the n-th close() call.
ClosedBy(n) ==
    SubSeq(main.closed, (n - 1) * Len(HookOrder) + 1, Min(n * Len(HookOrder), Len(main.closed)))

\* C11: a hook that raises, at once or when its coroutine is awaited, does not
\* end open() or close(): main() is never left by an exception of a hook, the
\* loop goes on with the next pipeline, and whichever hooks failed, when open()
\* is over every pipeline's open hook has been called exactly once, and when
\* close() is over every pipeline's close hook has been called exactly once.
C11_HookFailuresIsolated ==
    /\ [](/\ main.pc # "raised"
          /\ main.pc \in {"open", "open_await"} => main.opened = SubSeq(HookOrder, 1, main.hook)
          /\ main.pc \in {"close", "close_await"} =>
                ClosedBy(main.closes) = SubSeq(HookOrder, 1, main.hook)
          /\ main.pc \notin {"new", "open", "open_await"} =>
                /\ Len(main.opened) = Len(HookOrder)
                /\ \A p \in 1..Len(HookOrder) :
                      Cardinality({i \in 1..Len(main.opened) : main.opened[i] = HookOrder[p]}) = 1
          /\ main.pc \in {"wait2", "summary", "done"} =>
                /\ Len(main.closed) = Len(HookOrder)
                /\ \A p \in 1..Len(HookOrder) :
                      Cardinality({i \in 1..Len(main.closed) : main.closed[i] = HookOrder[p]}) = 1)
    /\ [][/\ main'.open_failed # main.open_failed =>
                /\ main'.pc = "open"
                /\ main'.hook > main.hook \/ main.pc = "open_await"
          /\ main'.close_failed # main.close_failed =>
                /\ main'.pc = "close"
                /\ main'.hook > main.hook \/ main.pc = "close_await"]_vars

\* Every open hook and every close hook failed, of MaxHookStages + 2 pipelines,
\* and main() has gone through to its end.
C11_Witness ==
    /\ Len(HookOrder) = MaxHookStages + 2
    /\ main.pc = "done"
    /\ main.open_failed = 1..Len(HookOrder)
    /\ main.close_failed = {1} \X (1..Len(HookOrder))
    /\ main.opened = HookOrder
    /\ main.closed = HookOrder

\* The order of the hooks as specified: request, response, item pipelines.
DeclaredOrder ==
    [i \in 1..Len(request_pipelines) |-> <<"request", request_pipelines[i]>>]
    \o [i \in 1..Len(response_pipelines) |-> <<"response", response_pipelines[i]>>]
    \o [i \in 1..Len(item_pipelines) |-> <<"item", item_pipelines[i]>>]

\* C12: open() calls the open hooks of the request pipelines, then of the
\* response pipelines, then of the item pipelines, each list in declaration
\* order; close() calls the close hooks in that same order; and no pooled
\* session is closed before the last close hook has finished.
C12_HooksInDeclaredOrder ==
    /\ IsPrefix(main.opened, DeclaredOrder)
    /\ IsPrefix(ClosedBy(1), DeclaredOrder)
    /\ (\E i \in 1..Len(sessions) : sessions[i].closed + sessions[i].failed > 0) =>
          /\ Len(main.closed) >= Len(HookOrder)
          /\ main.closes = 1 => main.pc \notin {"close", "close_await"}

----------------------------------------------------------------------------
(* Properties of shutdown (Spec) *)

\* Every session of the pool is closed.
AllClosed == \A i \in 1..Len(sessions) : sessions[i].closed > 0

MainCompleted == main.pc \in {"done", "closed_again"} \/ main.closes = 2

\* C14: no session is closed before close() has begun, none is closed twice,
\* and when main() has returned every session ever put in the pool has been
\* closed once; a request() call that a close hook scheduled and that makes a
\* session while close() walks the pool, or during the second wait, does not
\* make close() fail and its session is closed too.
C14_EverySessionClosedOnce ==
    /\ \A i \in 1..Len(sessions) :
          /\ sessions[i].closed <= 1
          /\ sessions[i].closed + sessions[i].failed > 0 => main.closes >= 1
    /\ main.err # "RuntimeError"
    /\ MainCompleted => \A i \in 1..Len(sessions) : sessions[i].closed = 1

----------------------------------------------------------------------------
(* Properties of the order inside one call (SpecRequest) *)

\* The request() calls whose request chain handed on a thing of the given kind.
PassedRequestChain(kind) ==
    {t \in DOMAIN tasks :
        /\ tasks[t].op = "request" /\ tasks[t].attempts > 0
        /\ kind = (IF tasks[t].phase = "response" THEN "Request" ELSE tasks[t].thing)}

\* The request() calls that have returned a thing of the given kind.
Returned(kind) ==
    {t \in DOMAIN tasks :
        tasks[t].op = "request" /\ tasks[t].pc = "done" /\ tasks[t].thing = kind}

\* C15: in one request() call an attempt is made only when every request
\* stage has been called and none declined; what the request chain handed on
\* is counted as delivered in the very step that starts the first attempt, and
\* stays counted when every attempt fails; the response stages run only when
\* the last attempt has ended with an answer and no attempt is in flight or
\* waiting; and a Response is counted as delivered only in the step in which
\* the call returns.
C15_StepsInSequence ==
    /\ [](/\ \A t \in DOMAIN tasks :
               LET tk == tasks[t]
               IN  /\ tk.attempts > 0 =>
                        /\ tk.invoked["request"] = ChainLen("request")
                        /\ tk.phase = "request" =>
                              /\ Len(tk.seen) = ChainLen("request")
                              /\ \A k \in 1..Len(tk.seen) : tk.seen[k] \in {"thing", "none"}
                   /\ tk.invoked["response"] > 0 => tk.phase = "response"
                   /\ tk.phase = "response" =>
                        /\ tk.attempts >= 1 /\ Len(tk.outs) = tk.attempts
                        /\ Last(tk.outs).err = ""
                        /\ tk.pc \in {"pipe_await", "done", "raised"}
                   /\ tk.pc \in {"inflight", "retry_wait"} =>
                        (tk.phase = "request" /\ tk.invoked["response"] = 0)
          /\ \A kind \in Kinds \ {"Response"} :
               Total(_reports, kind) =
                   Cardinality(PassedRequestChain(kind)) + Cardinality(Returned(kind))
          /\ Total(_reports, "Response") = Cardinality(Returned("Response")))
    /\ [][\A t \in DOMAIN tasks :
            /\ (tasks[t].attempts = 0 /\ tasks'[t].attempts > 0) =>
                  /\ tasks'[t].attempts = 1
                  /\ \E kind \in {"Request", "NoneType"} :
                        /\ t \in PassedRequestChain(kind)'
                        /\ Total(_reports', kind) = Total(_reports, kind) + 1
            /\ (tasks[t].phase = "request" /\ tasks'[t].phase = "response") =>
                  /\ tasks[t].pc = "inflight"
                  /\ tasks'[t].attempts = tasks[t].attempts
            /\ Total(_reports', "Response") # Total(_reports, "Response") =>
                  \E u \in DOMAIN tasks : tasks[u].pc # "done" /\ tasks'[u].pc = "done"]_vars

\* All MaxRetries + 1 attempts of a call failed, after a request chain of
\* MaxStages stages: the Request is counted as delivered, no Response is.
C15_Witness ==
    \E t \in DOMAIN tasks :
        /\ request_retries = MaxRetries /\ ChainLen("request") = MaxStages
        /\ tasks[t].pc = "raised" /\ tasks[t].err = "RetryError"
        /\ tasks[t].sent = MaxRetries + 1
        /\ \A i \in 1..Len(tasks[t].outs) : tasks[t].outs[i].err # ""
        /\ Total(_reports, "Request") = 1
        /\ Total(_reports, "Response") = 0 /\ Total(_drop_reports, "Response") = 0

----------------------------------------------------------------------------
(* Properties of cancellation (SpecSession) *)

\* The step in which an attempt of call t ends by timing out.
TimeoutStep(t) ==
    /\ Len(tasks'[t].outs) = Len(tasks[t].outs) + 1
    /\ Last(tasks'[t].outs) = TimeoutOutcome

\* C16: the step in which an attempt of a call times out changes nothing but
\* that call: every other call and every session stay as they are; the call
\* itself waits for its next attempt when fewer than retries + 1 attempts were
\* made, and fails only when none is left.  So every call's attempts and
\* result follow from the outcomes of its own attempts alone.
C16_TimeoutCancelsOneAttempt ==
    /\ [][\A t \in DOMAIN tasks :
            TimeoutStep(t) =>
               /\ \A u \in DOMAIN tasks \ {t} : tasks'[u] = tasks[u]
               /\ sessions' = sessions
               /\ tasks'[t].attempts = tasks[t].attempts
               /\ IF tasks[t].attempts < request_retries + 1
                  THEN tasks'[t].pc = "retry_wait"
                  ELSE tasks'[t].pc = "raised"]_vars
    /\ [](\A t \in DOMAIN tasks :
            LET tk == tasks[t]
            IN  /\ tk.pc = "retry_wait" => tk.attempts < request_retries + 1
                /\ SendOver(tk) =>
                     /\ tk.attempts = Min(FirstFinal(tk.outs), request_retries + 1)
                     /\ tk.pc = "done" <=>
                           /\ Last(tk.outs).err = ""
                           /\ request_retries = 0 \/ ~RetryTrigger(Last(tk.outs))
                /\ tk.sid # 0 =>
                     sessions[SessionIndex(sessions, tk.host)].closed = 0)

\* One call waits for its second attempt after a timeout, and then gets an
\* answer, while the other call, to the same host, was in flight all along
\* and is answered at its first attempt.
C16_Witness ==
    /\ request_retries = 1
    /\ tasks[1].outs = <<TimeoutOutcome, Resp(200)>> /\ tasks[1].pc = "done"
    /\ tasks[2].outs = <<Resp(200)>> /\ tasks[2].pc = "done" /\ tasks[2].attempts = 1
    /\ tasks[1].host = tasks[2].host

----------------------------------------------------------------------------
(* Properties of the reporter (SpecReport) *)

\* A step in which report() is called: it always adds a record.
ReportStep == _reports' # _reports \/ _drop_reports' # _drop_reports

\* More than the report interval has elapsed since the last flush.
IntervalElapsed == now - _last_time > 60

\* The rates a flush of the dict d logs, laid over the log f of that dict.
Flushed(f, f2, d, d2) ==
    \A k \in DOMAIN d :
        /\ k \in DOMAIN f2
        /\ f2[k][1] = Total(d, k) - Baseline(d, k)
        /\ f2[k][2] = (IF k \in DOMAIN f THEN f[k][2] ELSE 0) + f2[k][1]
        /\ Baseline(d2, k) = Total(d, k)

\* C17: a report() call flushes exactly when more than the report interval
\* has elapsed since the last flush.  A flush logs, for every kind tracked in
\* the delivered and in the dropped counters, the rate total - baseline as the
\* counters stood before the call, sets the baseline to that total and the
\* last-flush time to now; the record of the call is added after that, so it
\* is not in the flushed rate.  Without a flush the baselines, the last-flush
\* time and the log stay as they are.  For each kind the rates logged so far
\* add up to the baseline, the total at the last flush.
C17_FlushBeforeIncrement ==
    /\ [][/\ (ReportStep /\ IntervalElapsed) =>
                /\ _last_time' = now
                /\ Flushed(logged.get, logged.get', _reports, _reports')
                /\ Flushed(logged.drop, logged.drop', _drop_reports, _drop_reports')
                /\ \A k \in DOMAIN _reports' :
                      Total(_reports', k) - Baseline(_reports', k) \in {0, 1}
                /\ \A k \in DOMAIN _drop_reports' :
                      Total(_drop_reports', k) - Baseline(_drop_reports', k) \in {0, 1}
          /\ (ReportStep /\ ~IntervalElapsed) =>
                /\ _last_time' = _last_time
                /\ logged' = logged
                /\ \A k \in Kinds :
                      /\ Baseline(_reports', k) = Baseline(_reports, k)
                      /\ Baseline(_drop_reports', k) = Baseline(_drop_reports, k)
          /\ ~ReportStep => (_last_time' = _last_time /\ logged' = logged)]_vars
    /\ [](/\ \A k \in DOMAIN _reports :
               Baseline(_reports, k) = (IF k \in DOMAIN logged.get THEN logged.get[k][2] ELSE 0)
          /\ \A k \in DOMAIN _drop_reports :
               Baseline(_drop_reports, k) =
                   (IF k \in DOMAIN logged.drop THEN logged.drop[k][2] ELSE 0)
          /\ DOMAIN logged.get \subseteq DOMAIN _reports
          /\ DOMAIN logged.drop \subseteq DOMAIN _drop_reports)

\* Two flushes: the first logged a rate of 2 for delivered Requests, the
\* second, at time 122, a rate of 1; the record that set off the second flush
\* is the fourth, outside both rates.
C17_Witness ==
    /\ _last_time = MaxReportTime
    /\ "Request" \in DOMAIN logged.get
    /\ logged.get["Request"] = <<1, 3>>
    /\ _reports["Request"] = <<3, 4>>

\* C18: no delivered or dropped total ever decreases; a report() call adds
\* exactly 1 to exactly one total, of one kind, delivered or dropped, and
\* leaves every other total as it is; and every counter has
\* 0 <= baseline <= total.
C18_TotalsOnlyGrow ==
    /\ [](\A k \in Kinds :
            /\ 0 <= Baseline(_reports, k) /\ Baseline(_reports, k) <= Total(_reports, k)
            /\ 0 <= Baseline(_drop_reports, k)
            /\ Baseline(_drop_reports, k) <= Total(_drop_reports, k))
    /\ [][/\ \A k \in Kinds :
                /\ Total(_reports', k) >= Total(_reports, k)
                /\ Total(_drop_reports', k) >= Total(_drop_reports, k)
          /\ now' = now =>
                \E k \in Kinds, dropped \in BOOLEAN :
                   /\ Total(_reports', k) = Total(_reports, k) + (IF dropped THEN 0 ELSE 1)
                   /\ Total(_drop_reports', k) = Total(_drop_reports, k) + (IF dropped THEN 1 ELSE 0)
                   /\ \A j \in Kinds \ {k} :
                         /\ Total(_reports', j) = Total(_reports, j)
                         /\ Total(_drop_reports', j) = Total(_drop_reports, j)
          /\ now' # now => (_reports' = _reports /\ _drop_reports' = _drop_reports)]_vars

\* Counters of two kinds, delivered and dropped, after a flush that set a
\* baseline below the total.
C18_Witness ==
    /\ Baseline(_reports, "Request") = 1 /\ Total(_reports, "Request") = 2
    /\ Total(_drop_reports, "Item") = 1 /\ Baseline(_drop_reports, "Item") = 1
    /\ Total(_reports, "Item") = 1

----------------------------------------------------------------------------
(* Properties of the pipeline runner (SpecCollect) *)

\* C19: when a stage gives back None the chain is broken, as it is when a
\* stage gives back an exception: no later stage of the chain is called.
C19_NoneBreaksChain ==
    \A t \in DOMAIN tasks :
        \A k \in 1..Len(tasks[t].seen) :
            tasks[t].seen[k] = "none" =>
                (Len(tasks[t].seen) = k /\ tasks[t].invoked[tasks[t].phase] = k)

\* C20: every collect() call that is over has changed exactly one of
\* delivered["Item"] and dropped["Item"], by 1: delivered when it returned,
\* dropped when it failed, whether a stage gave back an error value, raised,
\* or ran into the stage timeout.
C20_EveryItemAccounted ==
    /\ Total(_reports, "Item") = Cardinality({t \in DOMAIN tasks : tasks[t].pc = "done"})
    /\ Total(_drop_reports, "Item") = Cardinality({t \in DOMAIN tasks : tasks[t].pc = "raised"})
    /\ Total(_reports, "Item") + Total(_drop_reports, "Item")
          = Cardinality({t \in DOMAIN tasks : Finished(tasks[t])})

====
